---- MODULE Spec2Model ----
\* HomeStream: the range-request video streaming handler
\* (app.get('/stream/:filename') of the server) and the Node/Express
\* machinery it drives: path.join, fs.existsSync, fs.statSync,
\* fs.createReadStream, Readable.pipe and the Express error path.
EXTENDS Integers, Sequences, FiniteSets, TLC

\* ---------------------------------------------------------------- bounds
\* size in bytes of the video that is in the videos directory from the start
FileSize == 3
\* largest size of a video stored by an upload while the server runs
MaxUpload == 1
\* bytes one read of the read stream delivers (highWaterMark, scaled down)
ChunkSize == 2
\* symbols of a Range header value after the optional "bytes=" unit
MaxHdrLen == 3
\* path segments of a decoded :filename parameter
MaxNameSegs == 3
\* stream requests in flight together in the concurrent specification
MaxReq == 2

\* ---------------------------------------------------------------- values
\* parseInt's "not a number"; no parsed part is negative, because split('-')
\* removes every minus sign before parseInt sees the part
NaN == -1
\* the read stream's default end when no end option is given
Infinity == -2
\* header value of a response that does not set that header
NoHeader == -3

Min(a, b) == IF a <= b THEN a ELSE b
Max(a, b) == IF a >= b THEN a ELSE b

\* sequences over S of length 0..n
RECURSIVE SeqsUpTo(_, _)
SeqsUpTo(S, n) ==
  IF n = 0 THEN {<<>>}
  ELSE LET shorter == SeqsUpTo(S, n - 1)
       IN  shorter \cup {Append(s, x) : s \in {t \in shorter : Len(t) = n - 1}, x \in S}

\* ---------------------------------------------------------------- paths
\* a path is the sequence of its segments; __dirname is the server's directory
dirname == <<"app">>

\* path.join: concatenate, then normalize ("" and "." vanish, ".." pops)
RECURSIVE Normalize(_, _)
Normalize(done, rest) ==
  IF rest = <<>> THEN done
  ELSE LET seg == Head(rest)
       IN  IF seg = "" \/ seg = "." THEN Normalize(done, Tail(rest))
           ELSE IF seg = ".."
                THEN Normalize(IF done = <<>> THEN done
                               ELSE SubSeq(done, 1, Len(done) - 1), Tail(rest))
                ELSE Normalize(Append(done, seg), Tail(rest))

PathJoin(base, name) == Normalize(<<>>, base \o name)

mediaDir == PathJoin(dirname, <<"media">>)
videosDir == PathJoin(mediaDir, <<"videos">>)
thumbnailsDir == PathJoin(mediaDir, <<"thumbnails">>)

\* p lies inside directory d (strictly below it)
Inside(p, d) == Len(p) > Len(d) /\ SubSeq(p, 1, Len(d)) = d

\* the directories that exist once the server has started
Dirs == {<<>>, dirname, mediaDir, videosDir, thumbnailsDir, PathJoin(dirname, <<"public">>)}

\* file contents: n bytes, distinct over all files, so that a slice names its place
Content(base, n) == [i \in 1..n |-> base + i - 1]

\* the server's own database module, required from __dirname
databaseJs == PathJoin(dirname, <<"database.js">>)

\* ---------------------------------------------------------------- fs
\* fsys maps each regular file's path to its bytes
\* (mutant) an existence check that never says no
existsSyncAlways(fsys, p) == TRUE
existsSync(fsys, p) == p \in DOMAIN fsys \/ p \in Dirs
isDirectory(fsys, p) == p \notin DOMAIN fsys /\ p \in Dirs
\* fs.statSync throws ENOENT on a path that does not exist
StatSyncThrows(fsys, p) == p \notin DOMAIN fsys /\ p \notin Dirs
\* (mutant) a size that counts one byte too many
statSizeOneMore(fsys, p, dirSize) ==
  IF isDirectory(fsys, p) THEN dirSize ELSE Len(fsys[p]) + 1
\* fs.statSync(p).size; a directory's size depends on the platform
statSize(fsys, p, dirSize) ==
  IF isDirectory(fsys, p) THEN dirSize ELSE Len(fsys[p])

\* ---------------------------------------------------------------- Range parsing
Digits == <<"0", "1", "2", "3", "4", "5", "6", "7", "8", "9">>
IsDigit(c) == \E d \in 1..10 : Digits[d] = c
DigitVal(c) == (CHOOSE d \in 1..10 : Digits[d] = c) - 1

\* String.prototype.replace(/bytes=/, ''): drop the first "bytes=" only
ReplaceBytes(s) ==
  IF \E i \in 1..Len(s) : s[i] = "bytes="
  THEN LET i == CHOOSE k \in 1..Len(s) :
                  s[k] = "bytes=" /\ \A j \in 1..(k - 1) : s[j] # "bytes="
       IN  SubSeq(s, 1, i - 1) \o SubSeq(s, i + 1, Len(s))
  ELSE s

\* String.prototype.split('-')
RECURSIVE Split(_)
Split(s) ==
  IF \E i \in 1..Len(s) : s[i] = "-"
  THEN LET i == CHOOSE k \in 1..Len(s) :
                  s[k] = "-" /\ \A j \in 1..(k - 1) : s[j] # "-"
       IN  <<SubSeq(s, 1, i - 1)>> \o Split(SubSeq(s, i + 1, Len(s)))
  ELSE <<s>>

\* value of the leading run of decimal digits of s, given the value so far
RECURSIVE DigitRun(_, _, _)
DigitRun(s, acc, seen) ==
  IF s # <<>> /\ IsDigit(Head(s))
  THEN DigitRun(Tail(s), 10 * acc + DigitVal(Head(s)), TRUE)
  ELSE IF seen THEN acc ELSE NaN

\* parseInt(s, 10) on strings without whitespace or sign
ParseInt(s) == DigitRun(s, 0, FALSE)

\* JavaScript truthiness of a string (possibly undefined)
Truthy(present, s) == present /\ s # <<>>

\* lines 342-345: the parts, start, end of a Range header value
RangeParts(range) == Split(ReplaceBytes(range))
RangeStart(range) == ParseInt(RangeParts(range)[1])
\* (mutant) an omitted end defaults to the size, not to the last byte
RangeEndOpenIsSize(range, fileSize) ==
  LET parts == RangeParts(range)
  IN  IF Len(parts) >= 2 /\ Truthy(TRUE, parts[2])
      THEN ParseInt(parts[2])
      ELSE fileSize
\* (mutant) the end is taken from the last part of the header, not the second
RangeEndLastPart(range, fileSize) ==
  LET parts == RangeParts(range)
  IN  IF Len(parts) >= 2 /\ Truthy(TRUE, parts[Len(parts)])
      THEN ParseInt(parts[Len(parts)])
      ELSE fileSize - 1
RangeEnd(range, fileSize) ==
  LET parts == RangeParts(range)
  IN  IF Len(parts) >= 2 /\ Truthy(TRUE, parts[2])
      THEN ParseInt(parts[2])
      ELSE fileSize - 1
\* (mutant) the length of an exclusive range
ChunkSizeOfExclusive(start, end) == end - start
ChunkSizeOf(start, end) == end - start + 1

\* fs.createReadStream's option check (Node 10 and later, which the server's
\* dependencies require): start and end must be integers >= 0 and start <= end,
\* else it throws ERR_OUT_OF_RANGE synchronously, before any header is written
CreateReadStreamThrows(start, end) ==
  \/ start = NaN \/ start < 0
  \/ end # Infinity /\ (end = NaN \/ end < 0 \/ start > end)

\* ---------------------------------------------------------------- state
VARIABLES
  fs,     \* the file system: path of each regular file |-> its bytes
  reqs,   \* the stream requests, one record per connection
  alive   \* the server process is running

vars == <<fs, reqs, alive>>

Slots == 1..MaxReq

NoStream == [src |-> <<>>, isDir |-> FALSE, pos |-> 0, end |-> Infinity, fdOpen |-> FALSE]

\* a connection on which no request has arrived yet; fsAt records the file
\* system as it was when the request arrived
IdleReq ==
  [state |-> "idle", filename |-> <<>>, hasRange |-> FALSE, range |-> <<>>,
   videoPath |-> <<>>, status |-> 0, json |-> "", threw |-> FALSE,
   fileSize |-> NoHeader, start |-> NoHeader, end |-> NoHeader,
   contentRange |-> <<>>, contentLength |-> NoHeader, acceptRanges |-> FALSE,
   statCalls |-> 0, streamsOpened |-> 0, stream |-> NoStream, body |-> <<>>,
   fsAt |-> <<>>]

aMp4 == PathJoin(videosDir, <<"a.mp4">>)
bMp4 == PathJoin(videosDir, <<"b.mp4">>)

Init ==
  /\ fs = (aMp4 :> Content(10, FileSize)) @@ (databaseJs :> Content(20, 2))
  /\ reqs = [r \in Slots |-> IdleReq]
  /\ alive = TRUE

\* ---------------------------------------------------------------- inputs
HdrAlphabet == {"0", "1", "2", "3", "-", ",", "x"}
\* Range header values: with or without the "bytes=" unit
Headers == {pre \o b : pre \in {<<>>, <<"bytes=">>}, b \in SeqsUpTo(HdrAlphabet, MaxHdrLen)}
\* <<present, value>>: the Range header of a request, possibly absent
AllRanges == {<<FALSE, <<>>>>} \cup {<<TRUE, h>> : h \in Headers}
FewRanges == {<<FALSE, <<>>>>, <<TRUE, <<"bytes=", "0", "-">>>>,
              <<TRUE, <<"bytes=", "1", "-", "2">>>>, <<TRUE, <<"bytes=", "0", "-", "9">>>>}

\* multi-range header values "bytes=a-b,<second>[,0-0]": a first range of two
\* digits, a second range in any of the three forms, an optional third range
RangeDigits == {"0", "1", "2", "3"}
FirstRanges == {<<a, "-", b>> : a \in RangeDigits, b \in RangeDigits}
LaterRanges == FirstRanges \cup {<<c, "-">> : c \in RangeDigits}
                           \cup {<<"-", d>> : d \in RangeDigits}
MultiHeaders ==
  {<<"bytes=">> \o f \o <<",">> \o l \o t :
     f \in FirstRanges, l \in LaterRanges, t \in {<<>>, <<",", "0", "-", "0">>}}
MultiRanges == {<<TRUE, h>> : h \in MultiHeaders}

\* decoded :filename values, as segments between path separators
Segs == {"..", "", "a.mp4", "database.js"}
Filenames == SeqsUpTo(Segs, MaxNameSegs) \ {<<>>, <<"">>}
ServedNames == {<<"a.mp4">>, <<"b.mp4">>}

\* a single request: every header on the stored videos, every name with a few headers
Inputs == (ServedNames \X (AllRanges \cup MultiRanges)) \cup (Filenames \X FewRanges)
\* concurrent requests
ConcInputs == ServedNames \X FewRanges
\* requests for the video another process is writing to
RaceInputs == {<<"a.mp4">>} \X FewRanges

\* fs.statSync(dir).size depends on the platform's file system
DirSizes == {0, FileSize + 1}

\* ---------------------------------------------------------------- the handler
\* app.get('/stream/:filename'): the synchronous handler, up to pipe(), and the
\* opening of the read stream that follows it. The three file system accesses
\* see fsE (existsSync), fsS (statSync) and fsO (the open of the read stream),
\* which differ only when another process writes between them.
StreamResponseAt(fsE, fsS, fsO, dirSize, filename, hasRange, range) ==
  LET videoPath == PathJoin(videosDir, filename)
      base == [IdleReq EXCEPT !.filename = filename, !.hasRange = hasRange,
                              !.range = range, !.videoPath = videoPath,
                              !.fsAt = fsE]
  IN
  IF ~existsSync(fsE, videoPath)
  THEN [base EXCEPT !.state = "done", !.status = 404, !.json = "Video not found"]
  ELSE IF StatSyncThrows(fsS, videoPath)
  THEN \* the exception reaches Express, which answers 500
       [base EXCEPT !.state = "done", !.status = 500, !.threw = TRUE, !.statCalls = 1]
  ELSE
    LET isDir == isDirectory(fsS, videoPath)
        fileSize == statSize(fsS, videoPath, dirSize)
        \* the open fails with ENOENT when the file is gone by then: the read
        \* stream emits 'error', which nothing listens for
        openFails == ~isDir /\ videoPath \notin DOMAIN fsO
        src == IF isDir \/ openFails THEN <<>> ELSE fsO[videoPath]
        stated == [base EXCEPT !.statCalls = 1, !.fileSize = fileSize]
    IN
    IF Truthy(hasRange, range)
    THEN
      LET start == RangeStart(range)
          end == RangeEnd(range, fileSize)
          chunkSize == ChunkSizeOf(start, end)
      IN
      IF CreateReadStreamThrows(start, end)
      THEN \* the exception reaches Express, which answers 500
           [stated EXCEPT !.state = "done", !.status = 500, !.threw = TRUE,
                          !.start = start, !.end = end]
      ELSE [stated EXCEPT !.state = IF openFails THEN "errored" ELSE "streaming",
                          !.status = 206,
                          !.start = start, !.end = end,
                          !.contentRange = <<start, end, fileSize>>,
                          !.acceptRanges = TRUE,
                          !.contentLength = chunkSize,
                          !.streamsOpened = 1,
                          !.stream = [src |-> src, isDir |-> isDir, pos |-> start,
                                      end |-> end, fdOpen |-> ~openFails]]
    ELSE [stated EXCEPT !.state = IF openFails THEN "errored" ELSE "streaming",
                        !.status = 200,
                        !.contentLength = fileSize,
                        !.streamsOpened = 1,
                        !.stream = [src |-> src, isDir |-> isDir, pos |-> 0,
                                    end |-> Infinity, fdOpen |-> ~openFails]]

\* the handler when no other process writes to the file system meanwhile
StreamResponse(fsys, dirSize, filename, hasRange, range) ==
  StreamResponseAt(fsys, fsys, fsys, dirSize, filename, hasRange, range)

\* a request arrives on connection r and the handler runs
GetStream(r, inputs) ==
  /\ alive
  /\ reqs[r].state = "idle"
  /\ \E in \in inputs, dirSize \in DirSizes :
       reqs' = [reqs EXCEPT ![r] = StreamResponse(fs, dirSize, in[1], in[2][1], in[2][2])]
  /\ UNCHANGED <<fs, alive>>

\* ---------------------------------------------------------------- streaming
\* bytes the next read of the stream delivers
ToRead(s) ==
  LET want == IF s.end = Infinity THEN ChunkSize
              ELSE Min(ChunkSize, s.end - s.pos + 1)
  IN  Max(0, Min(want, Len(s.src) - s.pos))

\* file.pipe(res): one read of the stream, written to the response; a read of
\* zero bytes ends the stream, which closes the file and ends the response;
\* reading a directory fails, and the 'error' event has no listener
StreamRead(r) ==
  /\ alive
  /\ reqs[r].state = "streaming"
  /\ LET s == reqs[r].stream
         n == ToRead(s)
     IN  IF s.isDir
         THEN /\ reqs' = [reqs EXCEPT ![r].state = "errored", ![r].stream.fdOpen = FALSE]
              /\ alive' = FALSE
         ELSE /\ alive' = alive
              /\ IF n = 0
                 THEN reqs' = [reqs EXCEPT ![r].state = "done", ![r].stream.fdOpen = FALSE]
                 ELSE reqs' = [reqs EXCEPT
                                 ![r].body = @ \o SubSeq(s.src, s.pos + 1, s.pos + n),
                                 ![r].stream.pos = @ + n]
  /\ UNCHANGED fs

\* a read of the file fails (EIO) after the headers were written: the read
\* stream closes its file and emits 'error'; neither the handler nor pipe()
\* listens for it on the read stream, and the server installs no
\* 'uncaughtException' handler, so the process exits
ReadError(r) ==
  /\ alive
  /\ reqs[r].state = "streaming"
  /\ ~reqs[r].stream.isDir
  /\ reqs' = [reqs EXCEPT ![r].state = "errored", ![r].stream.fdOpen = FALSE]
  /\ alive' = FALSE
  /\ UNCHANGED fs

\* the client disconnects: res emits 'close', pipe() unpipes and pauses the
\* read stream; nothing destroys it
ClientAbort(r) ==
  /\ alive
  /\ reqs[r].state = "streaming"
  /\ reqs' = [reqs EXCEPT ![r].state = "aborted"]
  /\ UNCHANGED <<fs, alive>>

\* app.post('/api/content'): multer stores the uploaded video in videosDir
Upload ==
  /\ alive
  /\ bMp4 \notin DOMAIN fs
  /\ \E n \in 0..MaxUpload : fs' = fs @@ (bMp4 :> Content(30, n))
  /\ UNCHANGED <<reqs, alive>>

\* ---------------------------------------------------------------- another process
\* another process unlinks file p, or replaces it by a file of n bytes
Unlink(fsys, p) == [x \in DOMAIN fsys \ {p} |-> fsys[x]]
Replace(fsys, p, n) == [x \in DOMAIN fsys |-> IF x = p THEN Content(40, n) ELSE fsys[x]]

\* the file systems the other process can leave behind when it acts on p or not
ActorViews(fsys, p) ==
  {fsys} \cup IF p \in DOMAIN fsys
              THEN {Unlink(fsys, p)} \cup {Replace(fsys, p, n) : n \in 0..MaxUpload}
              ELSE {}

\* a request arrives on connection r and the handler runs while another
\* process may write to the requested file between existsSync, statSync and
\* the open of the read stream; a failed open ends the process
RaceGetStream(r, inputs) ==
  /\ alive
  /\ reqs[r].state = "idle"
  /\ \E in \in inputs, dirSize \in DirSizes :
       LET p == PathJoin(videosDir, in[1]) IN
       \E fsS \in ActorViews(fs, p) : \E fsO \in ActorViews(fsS, p) :
         LET q == StreamResponseAt(fs, fsS, fsO, dirSize, in[1], in[2][1], in[2][2])
         IN  /\ reqs' = [reqs EXCEPT ![r] = q]
             /\ alive' = (q.state # "errored")
             /\ fs' = fsO

\* the other process writes to the stored video while no handler is running; a
\* read stream that is already open keeps reading the file it opened
OtherActor ==
  /\ alive
  /\ \E f \in ActorViews(fs, aMp4) : f # fs /\ fs' = f
  /\ UNCHANGED <<reqs, alive>>

\* ---------------------------------------------------------------- specifications
\* one request in flight
Next ==
  \/ GetStream(1, Inputs)
  \/ StreamRead(1)
  \/ ClientAbort(1)
  \/ ReadError(1)
  \/ Upload

Spec == Init /\ [][Next]_vars

\* up to MaxReq requests in flight together
NextConc ==
  \/ \E r \in Slots : GetStream(r, ConcInputs)
  \/ \E r \in Slots : StreamRead(r)
  \/ \E r \in Slots : ClientAbort(r)
  \/ \E r \in Slots : ReadError(r)
  \/ Upload

SpecConc == Init /\ [][NextConc]_vars

\* requests that race with another process writing to the videos directory
NextRace ==
  \/ \E r \in Slots : RaceGetStream(r, RaceInputs)
  \/ \E r \in Slots : StreamRead(r)
  \/ \E r \in Slots : ClientAbort(r)
  \/ OtherActor

SpecRace == Init /\ [][NextRace]_vars

\* ---------------------------------------------------------------- properties
\* decimal numeral of n, as a client writes it into a Range header
RECURSIVE Dec(_)
Dec(n) == IF n < 10 THEN <<Digits[n + 1]>> ELSE Dec(n \div 10) \o <<Digits[(n % 10) + 1]>>

IsPrefix(a, b) == Len(a) <= Len(b) /\ a = SubSeq(b, 1, Len(a))
\* bytes s..e (inclusive, counted from 0) of file f
Slice(f, s, e) == SubSeq(f, s + 1, e + 1)

\* request q names a video that was in the videos directory when it arrived
IsVideo(q) ==
  /\ q.state # "idle"
  /\ Len(q.filename) = 1
  /\ (videosDir \o q.filename) \in DOMAIN q.fsAt
FileOf(q) == q.fsAt[videosDir \o q.filename]

\* the response carries exactly bytes s..e of file f: what has been streamed is
\* a prefix of the slice, and all of it once the response has ended
Delivers(q, f, s, e) ==
  /\ IsPrefix(q.body, Slice(f, s, e))
  /\ q.state = "done" => q.body = Slice(f, s, e)

\* C1: a request with Range: bytes=start-end, 0 <= start <= end < size, is
\* answered 206 with Content-Range bytes start-end/size, Content-Length
\* end-start+1 and a body that is exactly bytes start..end of the file
C1_RangeSlice ==
  \A r \in Slots :
    LET q == reqs[r] IN
    IsVideo(q) /\ q.hasRange =>
      \A s \in 0..(Len(FileOf(q)) - 1) : \A e \in s..(Len(FileOf(q)) - 1) :
        q.range = <<"bytes=">> \o Dec(s) \o <<"-">> \o Dec(e) =>
          /\ q.status = 206
          /\ q.contentRange = <<s, e, Len(FileOf(q))>>
          /\ q.contentLength = e - s + 1
          /\ Delivers(q, FileOf(q), s, e)

C1_Witness ==
  \E r \in Slots :
    /\ IsVideo(reqs[r]) /\ reqs[r].state = "done"
    /\ reqs[r].hasRange /\ reqs[r].range = <<"bytes=", "1", "-", "2">>
    /\ reqs[r].status = 206 /\ reqs[r].body = <<11, 12>>

\* C2: a request without a Range header for an existing file is answered 200
\* with Content-Length equal to the size stat'ed in that request, and the body
\* is the whole file
C2_WholeFile ==
  \A r \in Slots :
    LET q == reqs[r] IN
    IsVideo(q) /\ ~q.hasRange =>
      /\ q.status = 200
      /\ q.statCalls = 1
      /\ q.fileSize = Len(FileOf(q))
      /\ q.contentLength = Len(FileOf(q))
      /\ q.contentRange = <<>>
      /\ IsPrefix(q.body, FileOf(q))
      /\ q.state = "done" => q.body = FileOf(q)

C2_Witness ==
  \E r \in Slots :
    /\ IsVideo(reqs[r]) /\ ~reqs[r].hasRange /\ reqs[r].state = "done"
    /\ reqs[r].status = 200 /\ reqs[r].body = Content(10, FileSize)

\* C3: an open-ended Range: bytes=N- with 0 <= N < size is answered 206 with
\* end = size-1: Content-Range bytes N-(size-1)/size, Content-Length size-N,
\* body bytes N through the end of the file
C3_OpenEnded ==
  \A r \in Slots :
    LET q == reqs[r] IN
    IsVideo(q) /\ q.hasRange =>
      \A n \in 0..(Len(FileOf(q)) - 1) :
        q.range = <<"bytes=">> \o Dec(n) \o <<"-">> =>
          LET size == Len(FileOf(q)) IN
          /\ q.status = 206
          /\ q.end = size - 1
          /\ q.contentRange = <<n, size - 1, size>>
          /\ q.contentLength = size - n
          /\ Delivers(q, FileOf(q), n, size - 1)

C3_Witness ==
  \E r \in Slots :
    /\ IsVideo(reqs[r]) /\ reqs[r].state = "done"
    /\ reqs[r].hasRange /\ reqs[r].range = <<"bytes=", "1", "-">>
    /\ reqs[r].status = 206 /\ reqs[r].body = <<11, 12>>

\* C4: a suffix Range: bytes=-N, N >= 1, returns the last min(N, size) bytes,
\* Content-Range bytes (size-min(N,size))-(size-1)/size, Content-Length
\* min(N, size)
C4_SuffixRange ==
  \A r \in Slots :
    LET q == reqs[r] IN
    IsVideo(q) /\ q.hasRange /\ Len(FileOf(q)) >= 1 =>
      \A n \in 1..9 :
        q.range = <<"bytes=", "-">> \o Dec(n) =>
          LET size == Len(FileOf(q))
              m == Min(n, size)
          IN  /\ q.status = 206
              /\ q.contentRange = <<size - m, size - 1, size>>
              /\ q.contentLength = m
              /\ Delivers(q, FileOf(q), size - m, size - 1)

\* C5: a request whose Range start is at or beyond the end of the file is
\* answered 416 with an empty body, and no read stream is opened for it
C5_StartBeyondEof ==
  \A r \in Slots :
    LET q == reqs[r] IN
    IsVideo(q) /\ q.hasRange =>
      \A s \in Len(FileOf(q))..9 : \A e \in s..9 :
        q.range = <<"bytes=">> \o Dec(s) \o <<"-">> \o Dec(e) =>
          /\ q.status = 416
          /\ q.streamsOpened = 0
          /\ q.body = <<>>

\* C6: for any Range header value, a 206 advertises 0 <= start <= end < size
\* and Content-Length end-start+1, and streams exactly Content-Length bytes;
\* every other range ends in 416, never in a thrown error
C6_RangeInvariant ==
  \A r \in Slots :
    LET q == reqs[r] IN
    IsVideo(q) /\ q.hasRange /\ q.range # <<>> =>
      /\ ~q.threw
      /\ q.status \in {206, 416}
      /\ q.status = 206 =>
           /\ Len(q.contentRange) = 3
           /\ 0 <= q.contentRange[1]
           /\ q.contentRange[1] <= q.contentRange[2]
           /\ q.contentRange[2] < Len(FileOf(q))
           /\ q.contentRange[3] = Len(FileOf(q))
           /\ q.contentLength = q.contentRange[2] - q.contentRange[1] + 1
           /\ q.state = "done" => Len(q.body) = q.contentLength

\* the request names nothing that exists: neither a file nor a directory
IsMissing(q) ==
  /\ q.state # "idle"
  /\ PathJoin(videosDir, q.filename) \notin (DOMAIN q.fsAt \cup Dirs)

\* C7: a request naming a file that does not exist is answered 404 with
\* {"error": "Video not found"}, with or without a Range header, and makes no
\* stat call and opens no read stream or file handle
C7_NotFound ==
  \A r \in Slots :
    LET q == reqs[r] IN
    IsMissing(q) =>
      /\ q.state = "done"
      /\ q.status = 404
      /\ q.json = "Video not found"
      /\ q.statCalls = 0
      /\ q.streamsOpened = 0
      /\ ~q.stream.fdOpen
      /\ q.body = <<>>

C7_Witness ==
  \E r \in Slots :
    /\ IsMissing(reqs[r]) /\ reqs[r].status = 404
    /\ reqs[r].filename = <<"b.mp4">>
    /\ reqs[r].hasRange /\ reqs[r].range = <<"bytes=", "0", "-">>

\* C8: whatever the :filename parameter, the path that is stat'ed and opened
\* lies inside the videos directory; a name that resolves outside it is
\* answered 404 before any file system access
C8_NoTraversal ==
  \A r \in Slots :
    LET q == reqs[r] IN
    q.state # "idle" =>
      /\ (q.statCalls > 0 \/ q.streamsOpened > 0) => Inside(q.videoPath, videosDir)
      /\ ~Inside(PathJoin(videosDir, q.filename), videosDir) =>
           q.status = 404 /\ q.statCalls = 0 /\ q.streamsOpened = 0

\* the bytes the headers of a finished 200/206 response advertise
Advertised(q) ==
  IF q.status = 206
  THEN Slice(q.stream.src, q.contentRange[1], q.contentRange[2])
  ELSE q.stream.src

\* C9: under any interleaving of concurrent requests, a step of one request
\* leaves every other request's record (start, end, size, cursor) untouched,
\* and each request delivers exactly the bytes its own headers advertise
C9_Independent ==
  [][\A r \in Slots :
       /\ reqs'[r] # reqs[r] => \A o \in Slots \ {r} : reqs'[o] = reqs[o]
       /\ (reqs'[r].state = "done" /\ reqs'[r].status \in {200, 206}) =>
            /\ Len(reqs'[r].body) = reqs'[r].contentLength
            /\ reqs'[r].body = Advertised(reqs'[r])]_vars

\* C10: in every terminal state of a request (completed, client-aborted,
\* errored) no file handle opened by that request remains open
C10_HandleReleased ==
  \A r \in Slots :
    reqs[r].state \in {"done", "aborted", "errored"} => ~reqs[r].stream.fdOpen

\* C12: a multi-range header bytes=a-b,c-d,... whose first range is valid
\* (0 <= a <= b < size) is served as its first range alone: 206, Content-Range
\* bytes a-b/size, Content-Length b-a+1, body bytes a..b, whatever the later
\* ranges are
C12_FirstRangeOnly ==
  \A r \in Slots :
    LET q == reqs[r] IN
    IsVideo(q) /\ q.hasRange /\ q.range \in MultiHeaders =>
      \A a \in 0..(Len(FileOf(q)) - 1) : \A b \in a..(Len(FileOf(q)) - 1) :
        SubSeq(q.range, 1, 5) = <<"bytes=">> \o Dec(a) \o <<"-">> \o Dec(b) \o <<",">> =>
          /\ q.status = 206
          /\ q.contentRange = <<a, b, Len(FileOf(q))>>
          /\ q.contentLength = b - a + 1
          /\ Delivers(q, FileOf(q), a, b)

C12_Witness ==
  \E r \in Slots :
    /\ IsVideo(reqs[r]) /\ reqs[r].state = "done"
    /\ reqs[r].range = <<"bytes=", "0", "-", "1", ",", "2", "-", "2">>
    /\ reqs[r].status = 206 /\ reqs[r].contentRange = <<0, 1, 3>>
    /\ reqs[r].body = <<10, 11>>

\* C11: when the read stream emits an I/O error after the headers were
\* written, only that response is aborted: the server process keeps running,
\* and every other request in flight can still be served
C11_ErrorContained ==
  \A r \in Slots :
    reqs[r].state = "errored" =>
      /\ alive
      /\ \A o \in Slots \ {r} : reqs[o].state = "streaming" => ENABLED StreamRead(o)

\* C13: when another process deletes or replaces the file between existsSync,
\* statSync and the open of the read stream, the request still ends in a
\* structured outcome: no exception escapes the handler, a failure after the
\* headers aborts only the connection, and Content-Length / Content-Range
\* carry the size of the request's own single stat
C13_RaceStructured ==
  \A r \in Slots :
    LET q == reqs[r] IN
    q.state # "idle" =>
      /\ ~q.threw
      /\ q.state = "errored" => alive
      /\ q.status \in {404, 200, 206}
      /\ q.status = 200 => q.statCalls = 1 /\ q.contentLength = q.fileSize
      /\ q.status = 206 => q.statCalls = 1 /\ q.contentRange[3] = q.fileSize

====
